---- MODULE Spec2Model ----
(***************************************************************************)
(* A model of the path tracer: the f64 arithmetic of point.rs on a scaled  *)
(* binary grid, Interval / Sphere::hit / HittableList::hit, the three      *)
(* materials, Camera::new, Camera::render and Camera::ray_color.           *)
(*                                                                         *)
(* Numbers.  An f64 is modelled by an integer n that stands for the value  *)
(* n / Scale (a grid of equally spaced values, as the f64 grid is in its   *)
(* subnormal range).  Addition and subtraction are exact; multiplication,  *)
(* division and square root round to the nearest grid value, ties to even, *)
(* so a product of two small non-zero values can round to zero (underflow) *)
(* exactly as in f64.  The three special values of IEEE-754 are kept:      *)
(* PInf, NInf and NaN, with their arithmetic and their comparisons (every  *)
(* ordered comparison with NaN is false).  The sign of zero is not         *)
(* modelled.                                                               *)
(***************************************************************************)
EXTENDS Integers, Sequences, FiniteSets, TLC

VARIABLES
    op,      \* the function applied ("init" before any, "main" in a run of main)
    args,    \* its arguments; in a run of main, the camera main asks for
    ret,     \* its result; in ray_color, the result of world.hit
    world,   \* HittableList.list: the scene, a sequence of spheres
    cam,     \* main's Camera, none before Camera::new returns
    pc,      \* where main is: "idle", "main", "sample", "trace", "hit", "borrowed", "return", "done", "panic"
    pixel_x, \* render: the column x of the pixel being sampled
    pixel_y, \* render: its row y
    sample,  \* render: the samples of the pixel traced so far
    written, \* render: the pixels written so far, in the order written
    traced,  \* render: the pixel of every ray_color call that returned, in order
    ray,     \* ray_color: the ray of the innermost call
    calls,   \* ray_color: the active calls, outermost first
    borrow_flag, \* RefCell: of each material, the borrows outstanding
    panicked \* the place of the panic that aborted the process, "none" if none

pipe == <<cam, pc, pixel_x, pixel_y, sample, written, traced, ray, calls, borrow_flag, panicked>>
vars == <<op, args, ret, world, cam, pc, pixel_x, pixel_y, sample, written, traced, ray, calls, borrow_flag, panicked>>

(***************************************************************************)
(* Bounds of the model.                                                    *)
(***************************************************************************)
Scale == 4          \* grid values per unit: the value 1.0 is the integer Scale
MaxMembers == 3     \* largest scene built by HittableList::add

(***************************************************************************)
(* f64                                                                     *)
(***************************************************************************)
F64MAX == 30000             \* f64::MAX, the largest finite value
F64MIN == -F64MAX           \* f64::MIN, the most negative finite value
PInf == F64MAX + 1          \* +infinity
NInf == -PInf               \* -infinity
NaN == F64MAX + 2           \* not a number
One == Scale                \* 1.0
Half == Scale \div 2        \* 0.5

IsNaN(a) == a = NaN
IsInf(a) == a = PInf \/ a = NInf
IsFinite(a) == F64MIN <= a /\ a <= F64MAX

Abs(n) == IF n < 0 THEN -n ELSE n
Sgn(n) == IF n < 0 THEN -1 ELSE IF n > 0 THEN 1 ELSE 0

\* the integer nearest to n / d (d # 0), ties to the even one: q and r are
\* the quotient and remainder of |n| by |d|
RoundHalfEven(q, r, ad) ==
    IF 2 * r < ad THEN q
    ELSE IF 2 * r > ad THEN q + 1
    ELSE IF q % 2 = 0 THEN q ELSE q + 1
RoundDiv(n, d) ==
    Sgn(n) * Sgn(d) * RoundHalfEven(Abs(n) \div Abs(d), Abs(n) % Abs(d), Abs(d))

\* the integer nearest to the square root of m (m >= 0)
RECURSIVE FloorSqrt(_, _, _)
FloorSqrt(m, lo, hi) ==
    IF lo >= hi THEN lo
    ELSE LET mid == (lo + hi + 1) \div 2
         IN  IF mid * mid <= m THEN FloorSqrt(m, mid, hi)
             ELSE FloorSqrt(m, lo, mid - 1)

NearestRoot(m, r) == IF m <= r * r + r THEN r ELSE r + 1
RoundSqrt(m) == NearestRoot(m, FloorSqrt(m, 0, IF m < 1024 THEN m ELSE 1024))

\* an exact result brought into f64's range: past f64::MAX it is an infinity
Fit(n) == IF n > F64MAX THEN PInf ELSE IF n < F64MIN THEN NInf ELSE n

FNeg(a) == IF IsNaN(a) THEN NaN ELSE -a

FAdd(a, b) ==
    IF IsNaN(a) \/ IsNaN(b) THEN NaN
    ELSE IF IsInf(a) /\ IsInf(b) THEN (IF a = b THEN a ELSE NaN)
    ELSE IF IsInf(a) THEN a
    ELSE IF IsInf(b) THEN b
    ELSE Fit(a + b)

FSub(a, b) == FAdd(a, FNeg(b))

FMul(a, b) ==
    IF IsNaN(a) \/ IsNaN(b) THEN NaN
    ELSE IF IsInf(a) \/ IsInf(b)
         THEN (IF a = 0 \/ b = 0 THEN NaN
               ELSE IF Sgn(a) * Sgn(b) > 0 THEN PInf ELSE NInf)
    ELSE Fit(RoundDiv(a * b, Scale))

FDiv(a, b) ==
    IF IsNaN(a) \/ IsNaN(b) THEN NaN
    ELSE IF IsInf(a) /\ IsInf(b) THEN NaN
    ELSE IF IsInf(a) THEN (IF Sgn(a) * Sgn(b) >= 0 THEN PInf ELSE NInf)
    ELSE IF IsInf(b) THEN 0
    ELSE IF b = 0 THEN (IF a = 0 THEN NaN ELSE IF a > 0 THEN PInf ELSE NInf)
    ELSE Fit(RoundDiv(a * Scale, b))

FSqrt(a) ==
    IF IsNaN(a) \/ a < 0 THEN NaN
    ELSE IF a = PInf THEN PInf
    ELSE RoundSqrt(a * Scale)

FAbs(a) == IF IsNaN(a) THEN NaN ELSE Abs(a)

\* f64's comparisons: false whenever an operand is NaN
FLt(a, b) == ~IsNaN(a) /\ ~IsNaN(b) /\ a < b
FGt(a, b) == FLt(b, a)
FEq(a, b) == ~IsNaN(a) /\ ~IsNaN(b) /\ a = b

\* f64::min: the other operand when one is NaN
FMin(a, b) == IF IsNaN(a) THEN b ELSE IF IsNaN(b) THEN a ELSE IF a < b THEN a ELSE b

(***************************************************************************)
(* Option<T>                                                               *)
(***************************************************************************)
None == [some |-> FALSE]
Some(v) == [some |-> TRUE, val |-> v]
IsSome(o) == o.some
IsNone(o) == ~o.some


(***************************************************************************)
(* point.rs: Point / Vector                                                *)
(***************************************************************************)
Point(px, py, pz) == [x |-> px, y |-> py, z |-> pz]
PointDefault == Point(0, 0, 0)

dot(lhs, rhs) ==
    FAdd(FAdd(FMul(lhs.x, rhs.x), FMul(lhs.y, rhs.y)), FMul(lhs.z, rhs.z))

cross(lhs, rhs) ==
    Point(FSub(FMul(lhs.y, rhs.z), FMul(lhs.z, rhs.y)),
          FSub(FMul(lhs.z, rhs.x), FMul(lhs.x, rhs.z)),
          FSub(FMul(lhs.x, rhs.y), FMul(lhs.y, rhs.x)))

len_squared(p) ==
    FAdd(FAdd(FMul(p.x, p.x), FMul(p.y, p.y)), FMul(p.z, p.z))

len(p) == FSqrt(len_squared(p))

PAdd(p, q) == Point(FAdd(p.x, q.x), FAdd(p.y, q.y), FAdd(p.z, q.z))
PSub(p, q) == Point(FSub(p.x, q.x), FSub(p.y, q.y), FSub(p.z, q.z))
PNeg(p) == Point(FNeg(p.x), FNeg(p.y), FNeg(p.z))
PMul(p, q) == Point(FMul(p.x, q.x), FMul(p.y, q.y), FMul(p.z, q.z))
PScale(p, k) == Point(FMul(p.x, k), FMul(p.y, k), FMul(p.z, k))

\* impl Div<f64> for Point: Option<Point>
PDivBroken(p, rhs) == Some(Point(FDiv(p.x, rhs), FDiv(p.y, rhs), FDiv(p.z, rhs)))
PDiv(p, rhs) ==
    IF FEq(rhs, 0) THEN None
    ELSE Some(Point(FDiv(p.x, rhs), FDiv(p.y, rhs), FDiv(p.z, rhs)))

unit(p) == PDiv(p, len(p))

reflect(lhs, rhs) == PSub(lhs, PScale(PScale(rhs, 2 * One), dot(lhs, rhs)))

refract_out(rhs, r_out_perp) ==
    PAdd(r_out_perp,
         PScale(rhs, FNeg(FSqrt(FAbs(FSub(One, len_squared(r_out_perp)))))))
refract(lhs, rhs, etai_over_etat) ==
    refract_out(rhs,
                PScale(PAdd(lhs, PScale(rhs, FMin(dot(PNeg(lhs), rhs), One))),
                       etai_over_etat))

NearZeroS == 1      \* 1e-8, modelled as the smallest positive grid value
near_zero(p) ==
    FLt(FAbs(p.x), NearZeroS) /\ FLt(FAbs(p.y), NearZeroS) /\ FLt(FAbs(p.z), NearZeroS)

(***************************************************************************)
(* ray.rs                                                                  *)
(***************************************************************************)
Ray(o, d) == [origin |-> o, direction |-> d]
at(r, t) == PAdd(r.origin, PScale(r.direction, t))

(***************************************************************************)
(* hittable.rs: Interval                                                   *)
(***************************************************************************)
Empty == [tag |-> "Empty", min |-> 0, max |-> 0]
Universe == [tag |-> "Universe", min |-> 0, max |-> 0]
SomeInterval(lo, hi) == [tag |-> "Some", min |-> lo, max |-> hi]

new_set_intervalNoMin(lo, hi) ==
    IF FEq(hi, F64MAX) THEN Universe
    ELSE IF FEq(lo, F64MAX) /\ FEq(hi, F64MIN) THEN Empty
    ELSE SomeInterval(lo, hi)
new_set_interval(lo, hi) ==
    IF FEq(lo, F64MIN) /\ FEq(hi, F64MAX) THEN Universe
    ELSE IF FEq(lo, F64MAX) /\ FEq(hi, F64MIN) THEN Empty
    ELSE SomeInterval(lo, hi)

surroundsClosed(iv, x) ==
    CASE iv.tag = "Universe" -> TRUE
      [] iv.tag = "Empty" -> FALSE
      [] OTHER -> FLt(iv.min, x) /\ ~FGt(x, iv.max) /\ ~IsNaN(x)
surrounds(iv, x) ==
    CASE iv.tag = "Universe" -> TRUE
      [] iv.tag = "Empty" -> FALSE
      [] OTHER -> FLt(iv.min, x) /\ FLt(x, iv.max)

Interval_min(iv) ==
    CASE iv.tag = "Universe" -> F64MIN
      [] iv.tag = "Empty" -> F64MAX
      [] OTHER -> iv.min

Interval_max(iv) ==
    CASE iv.tag = "Universe" -> F64MAX
      [] iv.tag = "Empty" -> F64MIN
      [] OTHER -> iv.max

(***************************************************************************)
(* sphere.rs.  mat is the identity of the shared material (the Rc).        *)
(***************************************************************************)
Sphere(c, r, m) == [center |-> c, radius |-> r, mat |-> m]

HitRecord(ht, hp, hn, ff, m) ==
    [t |-> ht, p |-> hp, normal |-> hn, front_face |-> ff, mat |-> m]

\* Sphere::hit, one let of the source after another
HitFace(s, root, p, outward_normal, front_face) ==
    Some(HitRecord(root, p,
                   IF front_face THEN outward_normal ELSE PNeg(outward_normal),
                   front_face, s.mat))
HitNormal(s, r, root, p, outward) ==
    IF IsNone(outward) THEN None
    ELSE HitFace(s, root, p, outward.val, FLt(dot(r.direction, outward.val), 0))
HitPoint(s, r, root, p) ==
    HitNormal(s, r, root, p, PDiv(PSub(p, s.center), s.radius))
HitRoot(s, r, ray_t, root) ==
    IF ~surrounds(ray_t, root) THEN None
    ELSE HitPoint(s, r, root, at(r, root))
HitRootsFarFirst(s, r, ray_t, root1, root2) ==
    HitRoot(s, r, ray_t, IF surrounds(ray_t, root2) THEN root2 ELSE root1)
HitRoots(s, r, ray_t, root1, root2) ==
    HitRoot(s, r, ray_t, IF surrounds(ray_t, root1) THEN root1 ELSE root2)
HitSqrtd(s, r, ray_t, a, half_b, sqrtd) ==
    HitRoots(s, r, ray_t,
             FDiv(FSub(FNeg(half_b), sqrtd), a),
             FDiv(FAdd(FNeg(half_b), sqrtd), a))
HitDiscriminant(s, r, ray_t, a, half_b, discriminant) ==
    IF FLt(discriminant, 0) THEN None
    ELSE HitSqrtd(s, r, ray_t, a, half_b, FSqrt(discriminant))
HitQuadratic(s, r, ray_t, a, half_b, c) ==
    HitDiscriminant(s, r, ray_t, a, half_b, FSub(FMul(half_b, half_b), FMul(a, c)))
HitOc(s, r, ray_t, oc) ==
    HitQuadratic(s, r, ray_t,
                 len_squared(r.direction),
                 dot(oc, r.direction),
                 FSub(len_squared(oc), FMul(s.radius, s.radius)))
Sphere_hit(s, r, ray_t) == HitOc(s, r, ray_t, PSub(r.origin, s.center))

(***************************************************************************)
(* hittable.rs: HittableList                                               *)
(***************************************************************************)
\* the match of the fold: Some(hr) => Some(hr), None => hit_record
OrElse(h, hit_record) == IF IsSome(h) THEN h ELSE hit_record
\* one step of the fold of HittableList::hit: member x, the best hit so far
HitStepNoTighten(hit_record, x, r, ray_t) ==
    OrElse(Sphere_hit(x, r, ray_t), hit_record)
HitStepKeepFirst(hit_record, x, r, ray_t) ==
    OrElse(hit_record, Sphere_hit(x, r, ray_t))
HitStep(hit_record, x, r, ray_t) ==
    OrElse(Sphere_hit(x, r,
                      new_set_interval(Interval_min(ray_t),
                                       IF IsSome(hit_record) THEN hit_record.val.t
                                       ELSE Interval_max(ray_t))),
           hit_record)

RECURSIVE HitFold(_, _, _, _, _)
HitFold(list, i, hit_record, r, ray_t) ==
    IF i > Len(list) THEN hit_record
    ELSE HitFold(list, i + 1, HitStep(hit_record, list[i], r, ray_t), r, ray_t)

HittableList_hit(list, r, ray_t) == HitFold(list, 1, None, r, ray_t)

HittableList_add(list, obj) == Append(list, obj)

(***************************************************************************)
(* point.rs: the random constructors.  The uniform source is an input: a   *)
(* draw is any value of the range, and random_in_unit_sphere returns any   *)
(* draw that its rejection loop accepts.                                   *)
(***************************************************************************)
UnitSphereDraws ==
    {Point(0, 0, 0), Point(Half, 0, 0), Point(-Half, 0, 0), Point(0, Half, 0)}
random_in_unit_sphere == {p \in UnitSphereDraws : FLt(len_squared(p), One)}

\* random_in_unit_vector, given the point random_in_unit_sphere returned
random_in_unit_vector(p) == unit(p)

\* random_between(0.0, 1.0)
UniformDraws == {0, Half, One - 1}

(***************************************************************************)
(* lambertian.rs, metal.rs, dielectric.rs.  scatter returns                *)
(* Option<(attenuation, scattered)>.                                       *)
(***************************************************************************)
Lambertian(c) == [kind |-> "Lambertian", color |-> c, fuzz |-> 0, ir |-> 0]
Metal(c, f) == [kind |-> "Metal", color |-> c, fuzz |-> f, ir |-> 0]
Dielectric(i) == [kind |-> "Dielectric", color |-> PointDefault, fuzz |-> 0, ir |-> i]

Scattered(att, r) == Some([attenuation |-> att, scattered |-> r])

Lambertian_direction(normal, scatter_direction) ==
    IF near_zero(scatter_direction) THEN normal ELSE scatter_direction
Lambertian_scatterTo(m, rec, ruv) ==
    IF IsNone(ruv) THEN None
    ELSE Scattered(m.color,
                   Ray(rec.p, Lambertian_direction(rec.normal,
                                                   PAdd(rec.normal, ruv.val))))
Lambertian_scatter(m, r_in, rec, rp) ==
    Lambertian_scatterTo(m, rec, random_in_unit_vector(rp))

Metal_scatterTo(m, rec, ud, ruv) ==
    IF IsNone(ud) THEN None
    ELSE IF IsNone(ruv) THEN None
    ELSE Scattered(m.color,
                   Ray(rec.p, PAdd(reflect(ud.val, rec.normal),
                                   PScale(ruv.val, m.fuzz))))
Metal_scatter(m, r_in, rec, rp) ==
    Metal_scatterTo(m, rec, unit(r_in.direction), random_in_unit_vector(rp))

FPow5(a) == FMul(FMul(FMul(FMul(a, a), a), a), a)

Schlick(r0sq, cosine) ==
    FAdd(r0sq, FMul(FSub(One, r0sq), FPow5(FSub(One, cosine))))
Square(r0) == FMul(r0, r0)
reflectance(cosine, ref_idx) ==
    Schlick(Square(FDiv(FSub(One, ref_idx), FAdd(One, ref_idx))), cosine)

Dielectric_tinted(m, rec, ud) ==
    IF IsNone(ud) THEN None
    ELSE Scattered(m.color, Ray(rec.p, reflect(ud.val, rec.normal)))
Dielectric_scatterTinted(m, r_in, rec, u01) ==
    Dielectric_tinted(m, rec, unit(r_in.direction))
\* Dielectric::scatter, one let of the source after another
Dielectric_direction(unit_direction, normal, refraction_ratio, cos_theta, sin_theta, u01) ==
    IF \/ FGt(FMul(refraction_ratio, sin_theta), One)
       \/ FGt(reflectance(cos_theta, refraction_ratio), u01)
    THEN reflect(unit_direction, normal)
    ELSE refract(unit_direction, normal, refraction_ratio)
Dielectric_cos(unit_direction, normal, refraction_ratio, cos_theta, u01) ==
    Dielectric_direction(unit_direction, normal, refraction_ratio, cos_theta,
                         FSqrt(FSub(One, FMul(cos_theta, cos_theta))), u01)
Dielectric_unit(rec, unit_direction, refraction_ratio, u01) ==
    Scattered(Point(One, One, One),
              Ray(rec.p,
                  Dielectric_cos(unit_direction, rec.normal, refraction_ratio,
                                 FMin(dot(PNeg(unit_direction), rec.normal), One),
                                 u01)))
Dielectric_ratio(m, rec, ud, u01) ==
    IF IsNone(ud) THEN None
    ELSE Dielectric_unit(rec, ud.val,
                         IF rec.front_face THEN FDiv(One, m.ir) ELSE m.ir, u01)
Dielectric_scatter(m, r_in, rec, u01) ==
    Dielectric_ratio(m, rec, unit(r_in.direction), u01)

\* the dynamic dispatch of Material::scatter; rnd holds the draws the call makes
scatter(m, r_in, rec, rnd) ==
    CASE m.kind = "Lambertian" -> Lambertian_scatter(m, r_in, rec, rnd.p)
      [] m.kind = "Metal" -> Metal_scatter(m, r_in, rec, rnd.p)
      [] OTHER -> Dielectric_scatter(m, r_in, rec, rnd.u)

\* the materials main creates, by identity: each is one Rc<RefCell<dyn Material>>
Materials ==
    <<Lambertian(Point(Half, Half, Half)),
      Metal(Point(One, Half, Half), One),
      Dielectric(One + Half),
      Metal(Point(One, One, One), 0)>>

(***************************************************************************)
(* The RefCell of a material.  Its borrow flag counts the borrows that are *)
(* outstanding: 0 when there is none, n > 0 for n shared borrows, -1 for   *)
(* the exclusive borrow.  A borrow that the flag does not allow panics.    *)
(***************************************************************************)
Unborrowed == [m \in 1..Len(Materials) |-> 0]
\* RefCell::borrow_mut: the exclusive borrow, allowed when nothing is outstanding
Borrowed(flag) == [ok |-> TRUE, site |-> "none", val |-> flag]
BorrowError == [ok |-> FALSE, site |-> "camera.rs:116", val |-> 0]
RefCell_borrow_mut(flag) == IF flag = 0 THEN Borrowed(-1) ELSE BorrowError
\* RefCell::borrow, of record.mat.borrow(): one more shared borrow, allowed
\* unless the exclusive borrow is outstanding
RefCell_borrow(flag) == IF flag >= 0 THEN Borrowed(flag + 1) ELSE BorrowError
\* the drop of the Ref of a borrow: the flag moves one step back to 0
RefCell_release(flag) == IF flag > 0 THEN flag - 1 ELSE flag + 1

(***************************************************************************)
(* camera.rs: Camera::new.  A u32 is an integer of 0..U32MAX; `as u32`     *)
(* truncates toward zero and saturates; f64::from(u32) is exact.  The two  *)
(* angles of CameraInit enter only through tan(angle / 2) (the radians     *)
(* crate and f64::tan), so CameraInit carries those tangents:              *)
(* tan_half_vfov and tan_half_defocus, beside defocus_angle itself.        *)
(***************************************************************************)
U32MAX == 255       \* u32::MAX, with the integer narrowed to eight bits
MaxDepth == 50      \* max_depth

Max(a, b) == IF a >= b THEN a ELSE b
Min(a, b) == IF a <= b THEN a ELSE b

AsU32(f) ==
    IF IsNaN(f) THEN 0
    ELSE IF f = PInf THEN U32MAX
    ELSE IF f < 0 THEN 0
    ELSE Min(f \div Scale, U32MAX)

FromU32(n) == n * Scale

\* a call's outcome: its value, or the panic that unwound it (with the local
\* image_height of Camera::new at that point)
Ok(v) == [ok |-> TRUE, site |-> "none", image_height |-> v.image_height, val |-> v]
Panic(where, ih) == [ok |-> FALSE, site |-> where, image_height |-> ih, val |-> None]

CameraInit(t, from, to, up, fd, da, td, spp) ==
    [tan_half_vfov |-> t, lookfrom |-> from, lookat |-> to, vup |-> up,
     focus_dist |-> fd, defocus_angle |-> da, tan_half_defocus |-> td,
     samples_per_pixel |-> spp]

RoundedU32(q) == AsU32(IF IsFinite(q) THEN q + Half ELSE q)
image_height_ofRounded(aspect_ratio, image_width) ==
    Max(RoundedU32(FDiv(FromU32(image_width), aspect_ratio)), 1)
image_height_of(aspect_ratio, image_width) ==
    Max(AsU32(FDiv(FromU32(image_width), aspect_ratio)), 1)

\* Camera::new, one let of the source after another
unwrap_or_default(o) == IF IsSome(o) THEN o.val ELSE PointDefault
NewFields(image_width, image_height, i, bu, bv, pixel_delta_u, pixel_delta_v, pixel00_loc, defocus_radius) ==
    Ok([image_width |-> image_width,
        image_height |-> image_height,
        center |-> i.lookfrom,
        pixel00_loc |-> pixel00_loc,
        pixel_delta_u |-> pixel_delta_u,
        pixel_delta_v |-> pixel_delta_v,
        samples_per_pixel |-> i.samples_per_pixel,
        max_depth |-> MaxDepth,
        defocus_angle |-> i.defocus_angle,
        defocus_disk_u |-> PScale(bu, defocus_radius),
        defocus_disk_v |-> PScale(bv, defocus_radius)])
NewCorner(image_width, image_height, i, bu, bv, pixel_delta_u, pixel_delta_v, viewport_upper_left) ==
    NewFields(image_width, image_height, i, bu, bv, pixel_delta_u, pixel_delta_v,
              PAdd(viewport_upper_left,
                   PScale(PAdd(pixel_delta_u, pixel_delta_v), Half)),
              FMul(i.focus_dist, i.tan_half_defocus))
NewDeltas(image_width, image_height, i, bw, bu, bv, viewport_u, viewport_v, pixel_delta_u, pixel_delta_v) ==
    IF IsNone(pixel_delta_u) THEN Panic("camera.rs:55", image_height)
    ELSE IF IsNone(pixel_delta_v) THEN Panic("camera.rs:56", image_height)
    ELSE NewCorner(image_width, image_height, i, bu, bv,
                   pixel_delta_u.val, pixel_delta_v.val,
                   PSub(PSub(PSub(i.lookfrom, PScale(bw, i.focus_dist)),
                             PDiv(viewport_u, 2 * One).val),
                        PDiv(viewport_v, 2 * One).val))
NewEdges(image_width, image_height, i, bw, bu, bv, viewport_u, viewport_v) ==
    NewDeltas(image_width, image_height, i, bw, bu, bv, viewport_u, viewport_v,
              PDiv(viewport_u, FromU32(image_width)),
              PDiv(viewport_v, FromU32(image_height)))
NewBasis(image_width, image_height, i, viewport_height, viewport_width, bw, bu, bv) ==
    NewEdges(image_width, image_height, i, bw, bu, bv,
             PScale(bu, viewport_width),
             PScale(bv, FNeg(viewport_height)))
NewU(image_width, image_height, i, viewport_height, viewport_width, bw, bu) ==
    NewBasis(image_width, image_height, i, viewport_height, viewport_width,
             bw, bu, cross(bw, bu))
NewW(image_width, image_height, i, viewport_height, bw) ==
    NewU(image_width, image_height, i, viewport_height,
         FMul(viewport_height, FDiv(FromU32(image_width), FromU32(image_height))),
         bw, cross(i.vup, bw))
NewSized(image_width, image_height, i) ==
    NewW(image_width, image_height, i,
         FMul(FMul(2 * One, i.tan_half_vfov), i.focus_dist),
         unwrap_or_default(unit(PSub(i.lookfrom, i.lookat))))
Camera_new(aspect_ratio, image_width, init_params) ==
    NewSized(image_width, image_height_of(aspect_ratio, image_width), init_params)

(***************************************************************************)
(* camera.rs: get_ray, with the draws it makes                             *)
(***************************************************************************)
\* random_between(0.0, 1.0), as pixel_sample_square draws it
PixelDraws == {0, Half}
UnitDiskDraws == {Point(0, 0, 0), Point(Half, Half, 0)}
random_in_unit_disk == {p \in UnitDiskDraws : FLt(len_squared(p), One)}

pixel_sample_square(c, r1, r2) ==
    PAdd(PScale(c.pixel_delta_u, FAdd(-Half, r1)),
         PScale(c.pixel_delta_v, FAdd(-Half, r2)))

defocus_disk_sample(c, p) ==
    PAdd(PAdd(c.center, PScale(c.defocus_disk_u, p.x)), PScale(c.defocus_disk_v, p.y))

RayThrough(origin, pixel_sample) == Ray(origin, PSub(pixel_sample, origin))
get_ray(c, fx, fy, r1, r2, p) ==
    RayThrough(IF FLt(c.defocus_angle, 0) \/ FEq(c.defocus_angle, 0) THEN c.center
               ELSE defocus_disk_sample(c, p),
               PAdd(PAdd(PAdd(c.pixel00_loc, PScale(c.pixel_delta_u, fx)),
                         PScale(c.pixel_delta_v, fy)),
                    pixel_sample_square(c, r1, r2)))

(***************************************************************************)
(* Pure-function checks of hittable.rs and sphere.rs: a scene is built by  *)
(* HittableList::add, and HittableList::hit and Interval::surrounds are    *)
(* applied to rays, intervals and values drawn from the sets below.        *)
(***************************************************************************)
TMin == 1           \* 0.001, modelled as the smallest positive grid value

NoArgs == <<>>

HitDirections == {Point(0, 0, 0), Point(One, 0, 0), Point(-One, 0, 0)}
HitRays == {Ray(PointDefault, d) : d \in HitDirections}

\* along the ray (0,0,0) + t (1,0,0): roots 2 and 4; 2 and 6 (a tie with the
\* first); -4 and -2 (behind); 3 with radius zero; -1 and 1 (the origin is
\* inside)
HitSpheres ==
    {Sphere(Point(3 * One, 0, 0), One, 1),
     Sphere(Point(4 * One, 0, 0), 2 * One, 2),
     Sphere(Point(-3 * One, 0, 0), One, 1),
     Sphere(Point(3 * One, 0, 0), 0, 2),
     Sphere(PointDefault, One, 3)}

HitIntervals ==
    {new_set_interval(lo, hi) : lo \in {F64MIN, TMin}, hi \in {3 * One, F64MAX}}
    \cup {Empty}

SurroundsValues ==
    {NInf, F64MIN, -One, 0, TMin, TMin + 1, One, 3 * One, F64MAX - 1, F64MAX, PInf, NaN}

\* Sphere::hit alone: the spheres above, one the ray along x misses
\* (discriminant -3) and one it touches (discriminant 0, both roots 3)
RootSpheres ==
    HitSpheres \cup {Sphere(Point(3 * One, 2 * One, 0), One, 1),
                     Sphere(Point(3 * One, One, 0), One, 1)}

\* main is not running
PipeIdle ==
    /\ cam = None /\ pc = "idle" /\ pixel_x = 0 /\ pixel_y = 0 /\ sample = 0
    /\ written = <<>> /\ traced = <<>> /\ ray = None /\ calls = <<>> /\ panicked = "none"
    /\ borrow_flag = Unborrowed

InitHit == op = "init" /\ args = NoArgs /\ ret = None /\ world = <<>> /\ PipeIdle

\* the scene is built first and queried afterwards, as main does
Building == op \in {"init", "add"}

Add(obj) ==
    /\ Building
    /\ Len(world) < MaxMembers
    /\ world' = HittableList_add(world, obj)
    /\ op' = "add"
    /\ args' = NoArgs
    /\ ret' = None
    /\ UNCHANGED pipe

ListHit(r, ray_t) ==
    /\ Building
    /\ op' = "hit"
    /\ args' = [r |-> r, ray_t |-> ray_t]
    /\ ret' = HittableList_hit(world, r, ray_t)
    /\ UNCHANGED world
    /\ UNCHANGED pipe

\* (asked of the interval alone, before a scene is built: it reads no scene)
Surrounds(iv, x) ==
    /\ op = "init"
    /\ op' = "surrounds"
    /\ args' = [ray_t |-> iv, x |-> x]
    /\ ret' = surrounds(iv, x)
    /\ UNCHANGED world
    /\ UNCHANGED pipe

\* (asked of one sphere, before a scene is built: it reads no scene)
SphereHit(s, r, ray_t) ==
    /\ op = "init"
    /\ op' = "sphere_hit"
    /\ args' = [s |-> s, r |-> r, ray_t |-> ray_t]
    /\ ret' = Sphere_hit(s, r, ray_t)
    /\ UNCHANGED world
    /\ UNCHANGED pipe

NextHit ==
    \/ \E s \in RootSpheres, r \in HitRays, ray_t \in HitIntervals : SphereHit(s, r, ray_t)
    \/ \E obj \in HitSpheres : Add(obj)
    \/ \E r \in HitRays, ray_t \in HitIntervals : ListHit(r, ray_t)
    \/ \E iv \in HitIntervals, x \in SurroundsValues : Surrounds(iv, x)

SpecHit == InitHit /\ [][NextHit]_vars

(***************************************************************************)
(* C1                                                                      *)
(***************************************************************************)
\* the values strictly inside an interval, by its bounds: min < t < max
StrictlyInside(ray_t, t) == FLt(Interval_min(ray_t), t) /\ FLt(t, Interval_max(ray_t))

\* what each member reports for the query, kept when it lies strictly inside
MemberHits(list, r, ray_t) ==
    {h \in {Sphere_hit(list[i], r, ray_t) : i \in 1..Len(list)} :
        IsSome(h) /\ StrictlyInside(ray_t, h.val.t)}

ClosestOf(list, r, ray_t, res) ==
    LET hits == MemberHits(list, r, ray_t)
    IN  /\ IsNone(res) <=> hits = {}
        /\ IsSome(res) =>
              /\ res \in hits
              /\ \A h \in hits : ~FLt(h.val.t, res.val.t)

\* C1 as stated: for every ray, interval and scene, HittableList::hit returns the
\* member hit of smallest t among those strictly inside the interval (min < t <
\* max), and nothing exactly when there is none.
C1_Original ==
    op = "hit" => ClosestOf(world, args.r, args.ray_t, ret)

\* C1 amended: the same, for every interval whose lower bound is not f64::MIN (so
\* that neither the interval nor any tightening of it is Universe, which
\* surrounds every value, NaN included).
C1_ClosestHit ==
    (op = "hit" /\ Interval_min(args.ray_t) # F64MIN)
        => ClosestOf(world, args.r, args.ray_t, ret)

\* a scene of three members where the nearest hit is neither the first nor the
\* last member's, and a farther hit was found first
C1_Witness ==
    /\ op = "hit"
    /\ Interval_min(args.ray_t) # F64MIN
    /\ Len(world) = 3
    /\ IsSome(ret)
    /\ Cardinality(MemberHits(world, args.r, args.ray_t)) >= 2
    /\ IsSome(Sphere_hit(world[1], args.r, args.ray_t))
    /\ ret # Sphere_hit(world[1], args.r, args.ray_t)
    /\ ret # Sphere_hit(world[3], args.r, args.ray_t)

(***************************************************************************)
(* C7                                                                      *)
(***************************************************************************)
\* the orders of the members of a list
OrdersOf(list) ==
    LET n == Len(list)
        bij == {f \in [1..n -> 1..n] : \A i, j \in 1..n : f[i] = f[j] => i = j}
    IN  {[i \in 1..n |-> list[f[i]]] : f \in bij}

\* the distance of a result, nothing for none
DistanceOf(res) == IF IsSome(res) THEN Some(res.val.t) ELSE None

\* what the members report for the query at the distance of the result
HitsAt(list, r, ray_t, res) ==
    {h \in {Sphere_hit(list[i], r, ray_t) : i \in 1..Len(list)} :
        IsSome(h) /\ IsSome(res) /\ h.val.t = res.val.t}

\* C7 as stated, at the interval the integrator queries with: HittableList::hit
\* returns the same hit (distance, surface and material) for every permutation
\* of the members, ties included.
C7_Original ==
    (op = "hit" /\ args.ray_t = new_set_interval(TMin, F64MAX)) =>
        \A l \in OrdersOf(world) : HittableList_hit(l, args.r, args.ray_t) = ret

\* C7 amended: for every permutation of the members the distance of the hit is the
\* same (and none is returned for one exactly when none is returned for all);
\* the surface and the material are the same as well when a single surface is hit
\* at that distance.  Of two surfaces hit at the same distance the one added
\* first is returned.
C7_OrderIrrelevant ==
    op = "hit" =>
        \A l \in OrdersOf(world) :
            LET other == HittableList_hit(l, args.r, args.ray_t)
            IN  /\ DistanceOf(other) = DistanceOf(ret)
                /\ Cardinality(HitsAt(world, args.r, args.ray_t, ret)) <= 1
                      => other = ret

\* three different members, two of them hit at different distances, and the
\* nearest is not the first
C7_Witness ==
    /\ op = "hit"
    /\ Len(world) = 3
    /\ Cardinality(OrdersOf(world)) = 6
    /\ IsSome(ret)
    /\ Cardinality(HitsAt(world, args.r, args.ray_t, ret)) = 1
    /\ Cardinality(MemberHits(world, args.r, args.ray_t)) >= 2
    /\ ret # Sphere_hit(world[1], args.r, args.ray_t)

(***************************************************************************)
(* C8                                                                      *)
(***************************************************************************)
\* the interval of the integrator (camera.rs, ray_color)
IntegratorInterval == new_set_interval(TMin, F64MAX)

\* C8 as stated: the integrator's interval surrounds every x > 0.001, the largest
\* representable value included, and no x <= 0.001.
C8_Original ==
    (op = "surrounds" /\ args.ray_t = IntegratorInterval)
        => (ret <=> (~IsNaN(args.x) /\ args.x > TMin))

\* C8 amended: the integrator's interval surrounds x exactly when
\* 0.001 < x < f64::MAX: not x <= 0.001, and not f64::MAX itself, +infinity or NaN.
C8_IntegratorInterval ==
    (op = "surrounds" /\ args.ray_t = IntegratorInterval)
        => (ret <=> (~IsNaN(args.x) /\ args.x > TMin /\ args.x < F64MAX))

\* the largest value below f64::MAX is surrounded
C8_Witness ==
    /\ op = "surrounds"
    /\ args.ray_t = IntegratorInterval
    /\ args.x = F64MAX - 1
    /\ ret

(***************************************************************************)
(* C11                                                                     *)
(***************************************************************************)
\* the quadratic of the query and its two roots, from the arguments
QueryOc == PSub(args.r.origin, args.s.center)
QueryA == len_squared(args.r.direction)
QueryHalfB == dot(QueryOc, args.r.direction)
QueryC == FSub(len_squared(QueryOc), FMul(args.s.radius, args.s.radius))
QueryDiscriminant == FSub(FMul(QueryHalfB, QueryHalfB), FMul(QueryA, QueryC))
QueryR1 == FDiv(FSub(FNeg(QueryHalfB), FSqrt(QueryDiscriminant)), QueryA)
QueryR2 == FDiv(FAdd(FNeg(QueryHalfB), FSqrt(QueryDiscriminant)), QueryA)
NonNegative(d) == FGt(d, 0) \/ FEq(d, 0)
Reports(t) == IsSome(ret) /\ ret.val.t = t

\* C11 as stated: with a non-negative discriminant Sphere::hit reports r1 if r1
\* lies strictly inside the interval, otherwise r2 if r2 does, otherwise no hit;
\* a reported t lies strictly inside the interval; a negative discriminant is no
\* hit.
C11_Original ==
    op = "sphere_hit" =>
        /\ FLt(QueryDiscriminant, 0) => IsNone(ret)
        /\ NonNegative(QueryDiscriminant) =>
              IF StrictlyInside(args.ray_t, QueryR1) THEN Reports(QueryR1)
              ELSE IF StrictlyInside(args.ray_t, QueryR2) THEN Reports(QueryR2)
              ELSE IsNone(ret)
        /\ IsSome(ret) => StrictlyInside(args.ray_t, ret.val.t)

\* C11 amended: the preference is as stated for a sphere of non-zero radius, with
\* "inside" as Interval::surrounds tests it: min < t < max for a bounded
\* interval, no value for Empty and every value (NaN and the infinities
\* included) for Universe.  A sphere of radius zero is never hit.  A reported t
\* lies strictly inside every interval but Universe, and r1 <= r2 whenever the
\* direction has a positive squared length.
C11_RootPreference ==
    op = "sphere_hit" =>
        /\ FLt(QueryDiscriminant, 0) => IsNone(ret)
        /\ args.s.radius = 0 => IsNone(ret)
        /\ NonNegative(QueryDiscriminant) /\ args.s.radius # 0 =>
              IF surrounds(args.ray_t, QueryR1) THEN Reports(QueryR1)
              ELSE IF surrounds(args.ray_t, QueryR2) THEN Reports(QueryR2)
              ELSE IsNone(ret)
        /\ IsSome(ret) /\ args.ray_t # Universe => StrictlyInside(args.ray_t, ret.val.t)
        /\ NonNegative(QueryDiscriminant) /\ FGt(QueryA, 0) => ~FGt(QueryR1, QueryR2)

\* the ray starts inside the sphere: r1 = -1 is behind the interval and r2 = 1
\* is reported
C11_Witness ==
    /\ op = "sphere_hit"
    /\ args.ray_t = IntegratorInterval
    /\ args.s.radius # 0
    /\ FLt(QueryR1, TMin)
    /\ QueryR1 # QueryR2
    /\ Reports(QueryR2)

(***************************************************************************)
(* Pure-function checks of point.rs and dielectric.rs: Point / f64,        *)
(* Point::unit and Dielectric::scatter are applied to inputs drawn from    *)
(* the sets below.                                                         *)
(***************************************************************************)
PointComponents == {-One, -1, 0, 1, One}
PointInputs == {Point(a, b, c) : a, b, c \in PointComponents}
Divisors == {0, 1, -Half, One, PInf, NaN}

\* incoming directions: none, along an axis, oblique, and too short to normalize
ScatterDirections ==
    {Point(0, 0, 0), Point(One, 0, 0), Point(-2 * One, 0, 0), Point(One, -One, 0),
     Point(1, 0, 0), Point(0, -One, One)}
ScatterNormals == {Point(-One, 0, 0), Point(One, 0, 0), Point(0, One, 0)}
ScatterRecords ==
    {HitRecord(2 * One, Point(2 * One, 0, 0), n, ff, 1) :
        n \in ScatterNormals, ff \in BOOLEAN}
RefractiveIndices == {One + Half, One, Half, 0}

InitPoint == op = "init" /\ args = NoArgs /\ ret = None /\ world = <<>> /\ PipeIdle

Div(p, rhs) ==
    /\ op = "init"
    /\ op' = "div"
    /\ args' = [p |-> p, rhs |-> rhs]
    /\ ret' = PDiv(p, rhs)
    /\ UNCHANGED world
    /\ UNCHANGED pipe

Unit(p) ==
    /\ op = "init"
    /\ op' = "unit"
    /\ args' = [p |-> p]
    /\ ret' = unit(p)
    /\ UNCHANGED world
    /\ UNCHANGED pipe

DielectricScatter(ir, d, rec, u01) ==
    /\ op = "init"
    /\ op' = "scatter"
    /\ args' = [ir |-> ir, r_in |-> Ray(PointDefault, d), rec |-> rec, u01 |-> u01]
    /\ ret' = Dielectric_scatter(Dielectric(ir), Ray(PointDefault, d), rec, u01)
    /\ UNCHANGED world
    /\ UNCHANGED pipe

NextPoint ==
    \/ \E p \in PointInputs, rhs \in Divisors : Div(p, rhs)
    \/ \E p \in PointInputs : Unit(p)
    \/ \E ir \in RefractiveIndices, d \in ScatterDirections,
          rec \in ScatterRecords, u01 \in UniformDraws :
            DielectricScatter(ir, d, rec, u01)

SpecPoint == InitPoint /\ [][NextPoint]_vars

(***************************************************************************)
(* C9                                                                      *)
(***************************************************************************)
ZeroVector(p) == p.x = 0 /\ p.y = 0 /\ p.z = 0

\* the square of a component rounds to zero (it is at most half a grid step)
SquareUnderflows(a) == IsFinite(a) /\ 2 * a * a <= Scale

DivContract ==
    op = "div" =>
        /\ IsNone(ret) <=> args.rhs = 0
        /\ IsSome(ret) =>
              /\ ret.val.x = FDiv(args.p.x, args.rhs)
              /\ ret.val.y = FDiv(args.p.y, args.rhs)
              /\ ret.val.z = FDiv(args.p.z, args.rhs)

\* C9 as stated: Point / f64 is none exactly when the divisor is zero and the
\* componentwise quotient otherwise; Point::unit is none for the zero vector and
\* a result for every non-zero vector.
C9_Original ==
    /\ DivContract
    /\ op = "unit" => (IsNone(ret) <=> ZeroVector(args.p))

\* C9 amended: the division is as stated; Point::unit is none exactly when the
\* length it computes is zero, which is so for the zero vector and also for
\* every non-zero vector whose components all have squares that underflow to
\* zero; it is a result for every other vector.
C9_DivAndUnit ==
    /\ DivContract
    /\ op = "unit" =>
          /\ ZeroVector(args.p) => IsNone(ret)
          /\ IsNone(ret) <=> /\ SquareUnderflows(args.p.x)
                             /\ SquareUnderflows(args.p.y)
                             /\ SquareUnderflows(args.p.z)

\* a non-zero vector that Point::unit does not normalize
C9_Witness ==
    /\ op = "unit"
    /\ args.p = Point(1, 0, -1)
    /\ IsNone(ret)

(***************************************************************************)
(* C10                                                                     *)
(***************************************************************************)
\* C10 as stated: Dielectric::scatter returns a scattered ray for every incoming
\* ray and hit record, with attenuation (1,1,1).
C10_Original ==
    op = "scatter" =>
        /\ IsSome(ret)
        /\ ret.val.attenuation = Point(One, One, One)

\* C10 amended: Dielectric::scatter returns a scattered ray, with attenuation
\* (1,1,1) and the hit point as its origin, for every incoming ray whose
\* direction Point::unit normalizes, and nothing for the others (the zero
\* direction among them).
C10_DielectricScatters ==
    op = "scatter" =>
        /\ IsSome(ret) <=> IsSome(unit(args.r_in.direction))
        /\ IsSome(ret) =>
              /\ ret.val.attenuation = Point(One, One, One)
              /\ ret.val.scattered.origin = args.rec.p

\* a refraction: the ray enters the front face head-on and leaves along itself
C10_Witness ==
    /\ op = "scatter"
    /\ args.ir = One + Half
    /\ args.rec.front_face
    /\ IsSome(ret)
    /\ ret.val.attenuation = Point(One, One, One)
    /\ ret.val.scattered.direction = Point(One, 0, 0)

(***************************************************************************)
(* Pure-function checks of Camera::new: it is applied to aspect ratios,    *)
(* widths and framings drawn from the sets below.                          *)
(***************************************************************************)
\* a camera on the x axis looking at the origin; the same with lookfrom = lookat;
\* the first with a lens (defocus_angle > 0)
Framings ==
    {CameraInit(One, Point(-2 * One, 0, 0), PointDefault, Point(0, One, 0), One, 0, 0, 1),
     CameraInit(One, PointDefault, PointDefault, Point(0, One, 0), One, 0, 0, 1),
     CameraInit(One, Point(-2 * One, 0, 0), PointDefault, Point(0, One, 0), One, One, Half, 2)}

AspectRatios == {NaN, -One, 0, 1, Half, One, One + Half, 2 * One, PInf}
ImageWidths == {0, 1, 2, 3, 10, U32MAX}

InitCamera == op = "init" /\ args = NoArgs /\ ret = None /\ world = <<>> /\ PipeIdle

New(aspect_ratio, image_width, init_params) ==
    /\ op = "init"
    /\ op' = "new"
    /\ args' = [aspect_ratio |-> aspect_ratio, image_width |-> image_width,
                init_params |-> init_params]
    /\ ret' = Camera_new(aspect_ratio, image_width, init_params)
    /\ UNCHANGED world
    /\ UNCHANGED pipe

NextCamera ==
    \E a \in AspectRatios, iw \in ImageWidths, ip \in Framings : New(a, iw, ip)

SpecCamera == InitCamera /\ [][NextCamera]_vars

(***************************************************************************)
(* C4                                                                      *)
(***************************************************************************)
\* C4 as stated: for every image_width, 0 included, and every aspect_ratio,
\* Camera::new completes: no division by an image dimension fails and the
\* process is not aborted.
C4_Original == op = "new" => ret.ok

(***************************************************************************)
(* C5                                                                      *)
(***************************************************************************)
PositiveRatio(a) == ~IsNaN(a) /\ a > 0

\* the integer nearest to image_width / aspect_ratio (halves upward)
RoundedQuotient(image_width, aspect_ratio) ==
    IF aspect_ratio = PInf THEN 0
    ELSE (2 * image_width * Scale + aspect_ratio) \div (2 * aspect_ratio)

\* C5 as stated: for every image_width and positive aspect_ratio the image height
\* is max(1, round(image_width / aspect_ratio)).
C5_Original ==
    (op = "new" /\ PositiveRatio(args.aspect_ratio)) =>
        ret.image_height = Max(1, RoundedQuotient(args.image_width, args.aspect_ratio))

\* C5 amended: for every image_width and positive aspect_ratio the image height
\* is max(1, min(u32::MAX, floor(q))), q being the f64 quotient
\* image_width / aspect_ratio: the quotient is truncated, not rounded, and
\* saturates at u32::MAX.
C5_ImageHeight ==
    (op = "new" /\ PositiveRatio(args.aspect_ratio)) =>
        LET q == FDiv(args.image_width * Scale, args.aspect_ratio)
        IN  ret.image_height =
                Max(1, IF q = PInf THEN U32MAX ELSE Min(U32MAX, q \div Scale))

\* 10 / 1.5 = 6.67 gives 6 rows, not 7
C5_Witness ==
    /\ op = "new"
    /\ args.image_width = 10
    /\ args.aspect_ratio = One + Half
    /\ ret.ok
    /\ ret.val.image_height = 6

(***************************************************************************)
(* main: Camera::new, then Camera::render over the scene, which calls      *)
(* get_ray and ray_color samples_per_pixel times for every pixel.          *)
(* ray_color is run call by call: calls holds one frame per active call,   *)
(* with its depth and the material whose RefCell it has borrowed (0 for    *)
(* none).  Colours are not computed: a call returns or panics.             *)
(***************************************************************************)
Eye == Point(-2 * One, 0, 0)
Up == Point(0, One, 0)
\* a camera request of main: aspect_ratio, image_width and the framing
Request(a, w, i) == [aspect_ratio |-> a, image_width |-> w, init_params |-> i]
Pinhole(spp) == CameraInit(One, Eye, PointDefault, Up, One, 0, 0, spp)
Lens == CameraInit(One, Eye, PointDefault, Up, One, One, Half, 1)
NoView == CameraInit(One, PointDefault, PointDefault, Up, One, 0, 0, 1)

\* a program: the scene main builds and the camera it asks for
Program(s, c) == [scene |-> s, camera |-> c]
Programs ==
    {Program(<<>>, Request(One, 2, Pinhole(2))),
     Program(<<>>, Request(Half, 1, Pinhole(0))),
     Program(<<>>, Request(One, 0, Pinhole(1))),
     Program(<<Sphere(PointDefault, One, 1)>>, Request(One, 2, Pinhole(1))),
     Program(<<Sphere(PointDefault, One, 1)>>, Request(2 * One, 2, NoView)),
     Program(<<Sphere(PointDefault, 0, 1)>>, Request(One, 1, Pinhole(1))),
     Program(<<Sphere(PointDefault, One, 2)>>, Request(One, 1, Pinhole(1))),
     Program(<<Sphere(PointDefault, One, 3)>>, Request(One, 1, Lens)),
     Program(<<Sphere(Eye, 3 * One, 4)>>, Request(One, 1, Pinhole(1))),
     Program(<<Sphere(PointDefault, One, 1), Sphere(Point(-4 * One, 0, 0), One, 1)>>,
             Request(One, 1, Pinhole(1)))}

Init ==
    /\ op = "main" /\ ret = None
    /\ \E prog \in Programs : world = prog.scene /\ args = prog.camera
    /\ cam = None /\ pc = "main" /\ pixel_x = 0 /\ pixel_y = 0 /\ sample = 0
    /\ written = <<>> /\ traced = <<>> /\ ray = None /\ calls = <<>>
    /\ borrow_flag = Unborrowed
    /\ panicked = "none"

\* main: Camera::new, and the start of render over the image
MainNew ==
    /\ pc = "main"
    /\ \E made \in {Camera_new(args.aspect_ratio, args.image_width, args.init_params)} :
          IF made.ok
          THEN /\ cam' = Some(made.val)
               /\ pc' = IF made.val.image_width = 0 \/ made.val.image_height = 0
                        THEN "done" ELSE "sample"
               /\ UNCHANGED panicked
          ELSE /\ pc' = "panic"
               /\ panicked' = made.site
               /\ UNCHANGED cam
    /\ UNCHANGED <<op, args, ret, world, pixel_x, pixel_y, sample, written,
                   traced, ray, calls>>
    /\ UNCHANGED borrow_flag

\* render: one more sample of the pixel (x, y): get_ray and the call of ray_color
GetRay(r1, r2, p) ==
    /\ pc = "sample"
    /\ sample < cam.val.samples_per_pixel
    /\ ray' = get_ray(cam.val, FromU32(pixel_x), FromU32(pixel_y), r1, r2, p)
    /\ calls' = <<[depth |-> cam.val.max_depth, mat |-> 0]>>
    /\ pc' = "trace"
    /\ UNCHANGED <<op, args, ret, world, cam, pixel_x, pixel_y, sample, written,
                   traced, panicked>>
    /\ UNCHANGED borrow_flag

\* render: the samples of the pixel are summed, the pixel is written, and
\* enumerate_pixels_mut yields the next one: the next column, then the next row
WritePixel ==
    /\ pc = "sample"
    /\ sample = cam.val.samples_per_pixel
    /\ written' = Append(written, <<pixel_x, pixel_y>>)
    /\ sample' = 0
    /\ IF pixel_x + 1 < cam.val.image_width
       THEN pixel_x' = pixel_x + 1 /\ UNCHANGED pixel_y /\ UNCHANGED pc
       ELSE /\ pixel_x' = 0
            /\ pixel_y' = pixel_y + 1
            /\ pc' = IF pixel_y + 1 < cam.val.image_height THEN "sample" ELSE "done"
    /\ UNCHANGED <<op, args, ret, world, cam, traced, ray, calls, panicked>>
    /\ UNCHANGED borrow_flag

\* the innermost call of ray_color
Top == calls[Len(calls)]

\* ray_color: depth == 0, the call returns black
RayColorExhausted ==
    /\ pc = "trace"
    /\ Top.depth = 0
    /\ pc' = "return"
    /\ UNCHANGED <<op, args, ret, world, cam, pixel_x, pixel_y, sample, written,
                   traced, ray, calls, panicked>>
    /\ UNCHANGED borrow_flag

\* ray_color: depth > 0, world.hit over the interval (0.001, f64::MAX)
RayColorHit ==
    /\ pc = "trace"
    /\ Top.depth > 0
    /\ ret' = HittableList_hit(world, ray, new_set_interval(TMin, F64MAX))
    /\ pc' = "hit"
    /\ UNCHANGED <<op, args, world, cam, pixel_x, pixel_y, sample, written,
                   traced, ray, calls, panicked>>
    /\ UNCHANGED borrow_flag

\* ray_color: a hit; record.mat.borrow() borrows the material of the record,
\* and the Ref lives to the end of the match on the result of scatter
RayColorBorrow ==
    /\ pc = "hit"
    /\ IsSome(ret)
    /\ \E b \in {RefCell_borrow(borrow_flag[ret.val.mat])} :
          IF b.ok
          THEN /\ borrow_flag' = [borrow_flag EXCEPT ![ret.val.mat] = b.val]
               /\ calls' = [calls EXCEPT ![Len(calls)].mat = ret.val.mat]
               /\ pc' = "borrowed"
               /\ UNCHANGED panicked
          ELSE /\ pc' = "panic"
               /\ panicked' = b.site
               /\ UNCHANGED <<borrow_flag, calls>>
    /\ UNCHANGED <<op, args, ret, world, cam, pixel_x, pixel_y, sample, written,
                   traced, ray>>

\* ray_color: the material scatters; the call, its borrow still held, calls
\* ray_color with the scattered ray and depth - 1
RayColorScatter(rnd) ==
    /\ pc = "borrowed"
    /\ \E sc \in {scatter(Materials[ret.val.mat], ray, ret.val, rnd)} :
          /\ IsSome(sc)
          /\ ray' = sc.val.scattered
    /\ calls' = Append(calls, [depth |-> Top.depth - 1, mat |-> 0])
    /\ pc' = "trace"
    /\ ret' = None
    /\ UNCHANGED <<op, args, world, cam, pixel_x, pixel_y, sample, written,
                   traced, borrow_flag, panicked>>

\* ray_color: the material does not scatter; the call returns black
RayColorAbsorbed(rnd) ==
    /\ pc = "borrowed"
    /\ \E sc \in {scatter(Materials[ret.val.mat], ray, ret.val, rnd)} : IsNone(sc)
    /\ pc' = "return"
    /\ ret' = None
    /\ UNCHANGED <<op, args, world, cam, pixel_x, pixel_y, sample, written,
                   traced, ray, calls, borrow_flag, panicked>>

\* ray_color: no hit; the call returns the background of the unit direction,
\* whose unwrap panics when the direction has no unit vector
RayColorMiss ==
    /\ pc = "hit"
    /\ IsNone(ret)
    /\ IF IsSome(unit(ray.direction))
       THEN pc' = "return" /\ UNCHANGED panicked
       ELSE pc' = "panic" /\ panicked' = "camera.rs:123"
    /\ UNCHANGED <<op, args, ret, world, cam, pixel_x, pixel_y, sample, written,
                   traced, ray, calls>>
    /\ UNCHANGED borrow_flag

\* ray_color returns, and the Ref of its borrow, if it took one, is dropped: to
\* its caller in ray_color, which returns in turn, or to render, which has one
\* more sample
RayColorReturn ==
    /\ pc = "return"
    /\ calls' = SubSeq(calls, 1, Len(calls) - 1)
    /\ borrow_flag' = IF Top.mat = 0 THEN borrow_flag
                      ELSE [borrow_flag EXCEPT ![Top.mat] = RefCell_release(@)]
    /\ IF Len(calls) = 1
       THEN /\ pc' = "sample"
            /\ sample' = sample + 1
            /\ traced' = Append(traced, <<pixel_x, pixel_y>>)
       ELSE UNCHANGED <<pc, sample, traced>>
    /\ UNCHANGED <<op, args, ret, world, cam, pixel_x, pixel_y, written, ray,
                   panicked>>

ScatterDraws == {[p |-> q, u |-> v] : q \in random_in_unit_sphere, v \in UniformDraws}

Next ==
    \/ MainNew
    \/ \E r1, r2 \in PixelDraws, p \in random_in_unit_disk : GetRay(r1, r2, p)
    \/ WritePixel
    \/ RayColorExhausted
    \/ RayColorHit
    \/ RayColorBorrow
    \/ \E rnd \in ScatterDraws : RayColorScatter(rnd)
    \/ \E rnd \in ScatterDraws : RayColorAbsorbed(rnd)
    \/ RayColorMiss
    \/ RayColorReturn

Spec == Init /\ [][Next]_vars

\* the camera of the render, and the pixels of its image in row-major order
Rendering == IsSome(cam)
RowMajor ==
    [k \in 1..(cam.val.image_width * cam.val.image_height) |->
        <<(k - 1) % cam.val.image_width, (k - 1) \div cam.val.image_width>>]

\* the calls of ray_color that are active hold the depths max_depth,
\* max_depth - 1, ... : each scattered bounce took exactly one
DepthsDescend ==
    \A i \in 1..Len(calls) : calls[i].depth = MaxDepth - (i - 1)
BoundedRecursion ==
    /\ DepthsDescend
    /\ Len(calls) <= MaxDepth + 1
\* a step of ray_color that calls ray_color again is a scattered bounce: the
\* call has depth left, its ray hit, and the material scattered the new ray
OnlyBouncesRecurse ==
    Len(calls') > Len(calls) /\ calls # <<>> =>
        /\ pc = "borrowed"
        /\ Top.depth > 0
        /\ IsSome(ret)
        /\ ret = HittableList_hit(world, ray, IntegratorInterval)
        /\ \E rnd \in ScatterDraws :
              \E sc \in {scatter(Materials[ret.val.mat], ray, ret.val, rnd)} :
                  IsSome(sc) /\ ray' = sc.val.scattered
        /\ calls'[Len(calls')].depth = Top.depth - 1
\* a call at depth 0 and a call that misses make no further call and return,
\* and so does a call whose hit is absorbed: a step that makes no call returns
ReturnsWithoutRecursing ==
    /\ pc = "trace" /\ Top.depth = 0 => pc' = "return" /\ calls' = calls
    /\ pc = "hit" /\ IsNone(ret) => pc' = "return" /\ calls' = calls
    /\ pc = "borrowed" /\ Len(calls') = Len(calls) => pc' = "return"

\* C2: tracing one camera ray always terminates with bounded recursion: depth
\* starts at max_depth = 50 and decreases by exactly 1 on each scattered
\* bounce, a call at depth 0, on absorption or on a miss returns without
\* recursing, and no more than 50 recursive calls are ever nested.
C2_Original ==
    /\ []BoundedRecursion
    /\ [][OnlyBouncesRecurse /\ ReturnsWithoutRecursing]_vars
\* the part of C2 that holds of every run: the bound on the recursion
C2_RecursionBound == []BoundedRecursion /\ [][OnlyBouncesRecurse]_vars
C2_DepthExhausted == pc = "return" /\ Len(calls) = MaxDepth + 1 /\ Top.depth = 0

\* C3: during rendering degenerate geometry never aborts the process:
\* ray_color returns a colour for every ray, a zero direction included, and
\* every scene, spheres of radius zero included, and does not panic.
C3_Original == panicked # "camera.rs:123"
\* the ray that aborts came from the camera, or from a material's scatter
C3_PanicFromCamera ==
    ~(panicked = "camera.rs:123" /\ Len(calls) = 1 /\ ray.direction = PointDefault)
C3_PanicFromScatter ==
    ~(panicked = "camera.rs:123" /\ Len(calls) = 2 /\ ray.direction = PointDefault)
\* a sphere of radius zero is no hit, and its ray returns
C3_ZeroRadiusWitness ==
    /\ pc = "return"
    /\ Len(world) = 1 /\ world[1].radius = 0

\* what render has written and traced so far is a prefix of the row-major
\* sweep: the pixels in row-major order, each once, each after exactly
\* samples_per_pixel rays of its own and before any ray of the next pixel
RowMajorPrefix ==
    Rendering =>
        LET spp == cam.val.samples_per_pixel
        IN  /\ Len(written) <= Len(RowMajor)
            /\ \A k \in 1..Len(written) : written[k] = RowMajor[k]
            /\ \A k \in 1..Len(traced) : traced[k] = RowMajor[((k - 1) \div spp) + 1]
            /\ Len(written) * spp <= Len(traced)
            /\ Len(traced) <= (Len(written) + 1) * spp
            /\ pc = "done" => written = RowMajor
\* render does not stop before the whole grid is written
RenderCompletes ==
    Rendering /\ pc \in {"done", "panic"} => written = RowMajor

\* C6: render writes every pixel of the image_width x image_height grid
\* exactly once, in strict row-major order, and traces exactly
\* samples_per_pixel rays through ray_color for a pixel before that pixel's
\* colour is written, with no interleaving of the samples of two pixels.
C6_Original == RowMajorPrefix /\ RenderCompletes
\* the part of C6 that holds of every run: the order of the sweep
C6_SweepOrder == RowMajorPrefix
C6_WholeGrid ==
    /\ pc = "done"
    /\ Len(written) = 4
    /\ Len(traced) = 8


(***************************************************************************)
(* The borrows of the materials during a render.                           *)
(***************************************************************************)
\* the active calls of ray_color that hold a borrow of material m
Holders(m) == {i \in 1..Len(calls) : calls[i].mat = m}
\* only shared borrows are outstanding, one for each call that holds one, and
\* no more of one material than the recursion is deep
OnlySharedBorrows ==
    \A m \in DOMAIN borrow_flag :
        /\ borrow_flag[m] >= 0
        /\ borrow_flag[m] = Cardinality(Holders(m))
        /\ borrow_flag[m] <= MaxDepth
\* a call that is waiting for its recursive call holds the borrow it took
HeldAcrossCalls == \A i \in 1..(Len(calls) - 1) : calls[i].mat # 0
\* between two camera rays nothing is borrowed
ReleasedBetweenRays == pc \in {"main", "sample", "done"} => borrow_flag = Unborrowed
\* a step changes the borrows of at most one material, by one shared borrow:
\* taken after a hit, or dropped by a call that returns
SharedBorrowSteps ==
    \A m \in DOMAIN borrow_flag :
        borrow_flag'[m] # borrow_flag[m] =>
            /\ \A o \in DOMAIN borrow_flag \ {m} : borrow_flag'[o] = borrow_flag[o]
            /\ \/ pc = "hit" /\ borrow_flag'[m] = borrow_flag[m] + 1
               \/ pc = "return" /\ borrow_flag'[m] = borrow_flag[m] - 1

\* C12: borrowing a shared material never fails during a render: the shared
\* borrow ray_color takes of the hit material is held while the recursive call
\* runs, so borrows of one material nest up to the recursion depth, and at
\* every point only shared borrows are outstanding and no exclusive borrow is
\* requested, so no borrow panics, also when spheres share the material and
\* one path hits it repeatedly.
C12_NoBorrowConflict ==
    /\ [](panicked # "camera.rs:116")
    /\ [](OnlySharedBorrows /\ HeldAcrossCalls /\ ReleasedBetweenRays)
    /\ [][SharedBorrowSteps]_vars
\* two spheres share a material, and one path has borrowed it in three nested
\* calls, the innermost of which has just borrowed it again
C12_Witness ==
    /\ pc = "borrowed"
    /\ Len(world) = 2
    /\ world[1].mat = world[2].mat
    /\ Len(calls) >= 3
    /\ borrow_flag[world[1].mat] = Len(calls)
\* the borrows of one material nested as deep as the recursion goes
C12_DeepestNest == \E m \in DOMAIN borrow_flag : borrow_flag[m] = MaxDepth

====
